---- MODULE Spec2Model ----
(***************************************************************************)
(* Degree-sequence validators and graph builders of src/utils/graphUtils.ts *)
(* as a state machine.  Node indices are 0-based as in the source; arrays  *)
(* are TLA+ sequences, so the array element a[i] is written At(a, i).      *)
(***************************************************************************)
EXTENDS Integers, Sequences, FiniteSets, TLC

\* ------------------------------------------------------------------ bounds
\* undirected inputs: sequences of length 0..MaxN over -1..MaxDeg
MaxN == 4
MaxDeg == 3
\* directed inputs that pass the length/sum guard: length 0..MaxDirN over
\* 0..MaxDirDeg, asking for at most MaxDirSum edges
MaxDirN == 4
MaxDirDeg == 2
MaxDirSum == 5
\* arbitrary directed inputs (any two lengths, any sums): length 0..MaxAnyN over -1..MaxAnyDeg
MaxAnyN == 3
MaxAnyDeg == 1

\* graphs handed to generateLineGraph: nodes v1 .. vn, n <= MaxLineNodes, and
\* at most MaxLineLinks links
MaxLineNodes == 4
MaxLineLinks == 3

\* graphs handed to checkConnectivity: nodes v1 .. vn, n <= MaxConnNodes, and
\* at most MaxConnLinks links between labels v1 .. v<MaxConnNodes>
MaxConnNodes == 3
MaxConnLinks == 3

\* graphs handed to findAllCliques / findMaximalCliques: the simple graphs on
\* nodes v1 .. vn, n <= MaxCliqueNodes
MaxCliqueNodes == 4

\* graphs whose link labels need not name a node: at most MaxLabelNodes nodes
\* and MaxLabelLinks links, labels v<k> and x<k> with k <= MaxLabelNodes
MaxLabelNodes == 2
MaxLabelLinks == 2

\* inputs of the repeated calls: sequences of at most MaxRepeatN degrees
\* 0 .. MaxRepeatDeg, graphs of at most MaxRepeatN nodes and links
MaxRepeatN == 2
MaxRepeatDeg == 1

\* ----------------------------------------------------------------- helpers
At(a, i) == a[i + 1]

SetAt(a, i, x) == [a EXCEPT ![i + 1] = x]

RECURSIVE Sum(_)
\* arr.reduce((a, b) => a + b, 0)
Sum(a) == IF a = <<>> THEN 0 ELSE Head(a) + Sum(Tail(a))

RECURSIVE InsertDesc(_, _)
\* place x in a descending run, after every element whose key is not smaller
InsertDesc(x, s) ==
  IF s = <<>> THEN <<x>>
  ELSE IF Head(s).key >= x.key THEN <<Head(s)>> \o InsertDesc(x, Tail(s))
  ELSE <<x>> \o s

RECURSIVE SortDesc(_)
\* Array.prototype.sort((a, b) => key(b) - key(a)): stable, descending by key.
\* The elements are records [key, v].
SortDesc(s) ==
  IF s = <<>> THEN <<>>
  ELSE InsertDesc(s[Len(s)], SortDesc(SubSeq(s, 1, Len(s) - 1)))

\* [...numbers].sort((a, b) => b - a)
SortNumbersDesc(s) ==
  LET keyed == [i \in 1 .. Len(s) |-> [key |-> s[i], v |-> s[i]]]
      sorted == SortDesc(keyed)
  IN [i \in 1 .. Len(s) |-> sorted[i].v]

\* the template string `v${index + 1}`; the number NaN is the record field nan
VLabel(index) == [prefix |-> "v", num |-> index + 1, nan |-> FALSE]

\* `v${undefined + 1}` = "vNaN"
VNaN == [prefix |-> "v", num |-> 0, nan |-> TRUE]

\* Array.from({ length: n }, (_, i) => ({ id: `v${i + 1}` }))
MakeNodes(n) == [i \in 1 .. n |-> [id |-> VLabel(i - 1)]]

\* ------------------------------------------------- isUndirectedGraphic
RECURSIVE UGDecrement(_, _, _)
\* for (let i = 0; i < d; i++) { ... }: "false" on an early return, else "cont"
UGDecrement(s, i, d) ==
  IF i >= d THEN [ret |-> "cont", seq |-> s]
  ELSE IF i >= Len(s) THEN [ret |-> "false", seq |-> s]
  ELSE LET s1 == SetAt(s, i, At(s, i) - 1)
       IN IF At(s1, i) < 0 THEN [ret |-> "false", seq |-> s1]
          ELSE UGDecrement(s1, i + 1, d)

\* the loop bound written i <= d
UGIterationOffByOne(s) ==
  LET f == SelectSeq(s, LAMBDA d : d > 0)
  IN IF Len(f) = 0 THEN [ret |-> "true", seq |-> f]
     ELSE LET d == At(f, 0)
          IN IF d < 0 \/ d > Len(f) - 1 THEN [ret |-> "false", seq |-> f]
             ELSE LET r == UGDecrement(Tail(f), 0, d + 1)
                  IN IF r.ret = "false" THEN r
                     ELSE [ret |-> "cont", seq |-> SortNumbersDesc(r.seq)]

\* one pass of the body of while (true): "true"/"false" when it returns,
\* "cont" with the re-sorted sequence when it goes round again
UGIteration(s) ==
  LET f == SelectSeq(s, LAMBDA d : d > 0)
  IN IF Len(f) = 0 THEN [ret |-> "true", seq |-> f]
     ELSE LET d == At(f, 0)
          IN IF d < 0 \/ d > Len(f) - 1 THEN [ret |-> "false", seq |-> f]
             ELSE LET r == UGDecrement(Tail(f), 0, d)
                  IN IF r.ret = "false" THEN r
                     ELSE [ret |-> "cont", seq |-> SortNumbersDesc(r.seq)]

RECURSIVE UGRun(_)
UGRun(s) ==
  LET r == UGIteration(s)
  IN IF r.ret = "cont" THEN UGRun(r.seq) ELSE r.ret = "true"

\* the whole function, as constructUndirectedGraph calls it
IsUndirectedGraphic(sequence) == UGRun(SortNumbersDesc(sequence))

\* --------------------------------------------- constructUndirectedGraph
\* degrees.sort((a, b) => b.degree - a.degree)
SortDegrees(degrees) ==
  LET keyed == [i \in 1 .. Len(degrees) |-> [key |-> degrees[i].degree, v |-> degrees[i]]]
      sorted == SortDesc(keyed)
  IN [i \in 1 .. Len(degrees) |-> sorted[i].v]

RECURSIVE CUGLink(_, _, _, _)
\* for (let i = 0; i < current.degree; i++) { ... }: reading neighbor.index of an
\* undefined degrees[i] throws a TypeError
CUGLink(current, rest, ls, i) ==
  IF i >= current.degree THEN [ret |-> "cont", degrees |-> rest, links |-> ls]
  ELSE IF i >= Len(rest) THEN [ret |-> "TypeError", degrees |-> rest, links |-> ls]
  ELSE LET neighbor == At(rest, i)
       IN CUGLink(current,
                  SetAt(rest, i, [neighbor EXCEPT !.degree = @ - 1]),
                  Append(ls, [source |-> VLabel(current.index),
                              target |-> VLabel(neighbor.index)]),
                  i + 1)

\* the current node is left in the array (degrees.slice(1) forgotten)
CUGIterationNoSlice(degrees, ls) ==
  LET sorted == SortDegrees(degrees)
      current == At(sorted, 0)
      r == CUGLink(current, sorted, ls, 0)
  IN [r EXCEPT !.degrees = Tail(@)]

\* one pass of the body of while (degrees.some(d => d.degree > 0))
CUGIteration(degrees, ls) ==
  LET sorted == SortDegrees(degrees)
      current == At(sorted, 0)
  IN CUGLink(current, Tail(sorted), ls, 0)

\* --------------------------------------------------- isDirectedGraphic
\* Array(n).fill(null).map(() => Array(n).fill(false))
EmptyAdjacency(n) == [i \in 1 .. n |-> [j \in 1 .. n |-> FALSE]]

\* Array.from({ length: n }, (_, i) => i)
InitialNodeIndices(n) == [i \in 1 .. n |-> i - 1]

\* nodeIndices.sort((a, b) => remainingOut[b] - remainingOut[a])
SortByRemaining(indices, remaining) ==
  LET keyed == [i \in 1 .. Len(indices) |-> [key |-> At(remaining, indices[i]), v |-> indices[i]]]
      sorted == SortDesc(keyed)
  IN [i \in 1 .. Len(indices) |-> sorted[i].v]

\* nodeIndices.find(node => remainingOut[node] > 0): the found position, 0 for undefined
FindPositive(indices, remaining) ==
  LET hits == {i \in 1 .. Len(indices) : At(remaining, indices[i]) > 0}
  IN IF hits = {} THEN 0 ELSE CHOOSE i \in hits : \A j \in hits : i <= j

\* the filter without the test of the reverse edge
DGEligibleOneWay(current, node, adj, rIn) ==
  /\ node # current
  /\ ~At(At(adj, current), node)
  /\ At(rIn, node) > 0

\* the filter predicate of eligibleTargets in isDirectedGraphic
DGEligible(current, node, adj, rIn) ==
  /\ node # current
  /\ ~At(At(adj, current), node)
  /\ ~At(At(adj, node), current)
  /\ At(rIn, node) > 0

\* eligibleTargets of isDirectedGraphic: filter, then sort by remaining in-degree
DGEligibleTargets(current, indices, adj, rIn) ==
  SortByRemaining(SelectSeq(indices, LAMBDA node : DGEligible(current, node, adj, rIn)), rIn)

RECURSIVE DGAssign(_, _, _, _, _, _)
\* for (let i = 0; i < required; i++) { ... } of isDirectedGraphic
DGAssign(current, eligible, adj, rIn, i, required) ==
  IF i >= required THEN [ret |-> "cont", adjacency |-> adj, remainingIn |-> rIn]
  ELSE LET target == At(eligible, i)
           adj1 == SetAt(adj, current, SetAt(At(adj, current), target, TRUE))
           rIn1 == SetAt(rIn, target, At(rIn, target) - 1)
       IN IF At(rIn1, target) < 0
          THEN [ret |-> "false", adjacency |-> adj1, remainingIn |-> rIn1]
          ELSE DGAssign(current, eligible, adj1, rIn1, i + 1, required)

\* the last line written remainingIn.every(d => d <= 0)
DGAllZeroOrLess(rIn) == \A i \in 1 .. Len(rIn) : rIn[i] <= 0

\* remainingIn.every(d => d === 0)
DGAllZero(rIn) == \A i \in 1 .. Len(rIn) : rIn[i] = 0

\* const current = nodeIndices.find(...) after the sort: <<current>>, or <<>>
\* for undefined
DGCurrent(indices, rOut) ==
  LET sortedIdx == SortByRemaining(indices, rOut)
      pos == FindPositive(sortedIdx, rOut)
  IN IF pos = 0 THEN <<>> ELSE <<sortedIdx[pos]>>

\* the pass without remainingOut[current] = 0
DGIterationNotZeroed(st) ==
  LET n == Len(st.remainingIn)
      sortedIdx == SortByRemaining(st.nodeIndices, st.remainingOut)
      pos == FindPositive(sortedIdx, st.remainingOut)
      st1 == [st EXCEPT !.nodeIndices = sortedIdx]
  IN IF pos = 0
     THEN [ret |-> IF DGAllZero(st.remainingIn) THEN "true" ELSE "false", st |-> st1]
     ELSE LET current == sortedIdx[pos]
              required == At(st.remainingOut, current)
          IN IF required < 0 \/ required > n - 1
             THEN [ret |-> "false", st |-> st1]
             ELSE LET eligible == DGEligibleTargets(current, sortedIdx, st.adjacency, st.remainingIn)
                  IN IF Len(eligible) < required
                     THEN [ret |-> "false", st |-> st1]
                     ELSE LET r == DGAssign(current, eligible, st.adjacency,
                                            st.remainingIn, 0, required)
                          IN [ret |-> r.ret,
                              st |-> [st1 EXCEPT !.adjacency = r.adjacency,
                                                 !.remainingIn = r.remainingIn]]

\* one pass of the body of while (true) in isDirectedGraphic, on the locals
\* st = [remainingIn, remainingOut, adjacency, nodeIndices]
DGIteration(st) ==
  LET n == Len(st.remainingIn)
      sortedIdx == SortByRemaining(st.nodeIndices, st.remainingOut)
      pos == FindPositive(sortedIdx, st.remainingOut)
      st1 == [st EXCEPT !.nodeIndices = sortedIdx]
  IN IF pos = 0
     THEN [ret |-> IF DGAllZero(st.remainingIn) THEN "true" ELSE "false", st |-> st1]
     ELSE LET current == sortedIdx[pos]
              required == At(st.remainingOut, current)
              st2 == [st1 EXCEPT !.remainingOut = SetAt(@, current, 0)]
          IN IF required < 0 \/ required > n - 1
             THEN [ret |-> "false", st |-> st2]
             ELSE LET eligible == DGEligibleTargets(current, sortedIdx, st.adjacency, st.remainingIn)
                  IN IF Len(eligible) < required
                     THEN [ret |-> "false", st |-> st2]
                     ELSE LET r == DGAssign(current, eligible, st.adjacency,
                                            st.remainingIn, 0, required)
                          IN [ret |-> r.ret,
                              st |-> [st2 EXCEPT !.adjacency = r.adjacency,
                                                 !.remainingIn = r.remainingIn]]

\* the guard without the comparison of the sums
DGGuardLengthOnly(inD, outD) == Len(inD) = Len(outD)

\* the guards of lines 23-26
DGGuard(inD, outD) == Len(inD) = Len(outD) /\ Sum(inD) = Sum(outD)

\* the locals as set up before the loop
DGLocals(inD, outD) ==
  [remainingIn |-> inD, remainingOut |-> outD,
   adjacency |-> EmptyAdjacency(Len(inD)),
   nodeIndices |-> InitialNodeIndices(Len(inD))]

RECURSIVE DGRun(_)
DGRun(st) ==
  LET r == DGIteration(st)
  IN IF r.ret = "cont" THEN DGRun(r.st) ELSE r.ret = "true"

\* the whole function, as constructDirectedGraph calls it
IsDirectedGraphic(inD, outD) == DGGuard(inD, outD) /\ DGRun(DGLocals(inD, outD))

\* ------------------------------------------------ constructDirectedGraph
\* the filter predicate of eligibleTargets in constructDirectedGraph
CDGEligible(current, node, adj, rIn) ==
  /\ node # current
  /\ ~At(At(adj, current), node)
  /\ ~At(At(adj, node), current)
  /\ At(rIn, node) > 0

\* the builder's targets left in nodeIndices order (the sort by remaining
\* in-degree forgotten)
CDGEligibleTargetsUnsorted(current, indices, adj, rIn) ==
  SelectSeq(indices, LAMBDA node : CDGEligible(current, node, adj, rIn))

\* eligibleTargets of constructDirectedGraph
CDGEligibleTargets(current, indices, adj, rIn) ==
  SortByRemaining(SelectSeq(indices, LAMBDA node : CDGEligible(current, node, adj, rIn)), rIn)

RECURSIVE CDGAssign(_, _, _, _, _, _, _)
\* for (let i = 0; i < required; i++) { ... } of constructDirectedGraph.  An
\* undefined eligibleTargets[i] is not dereferenced: it gives the label "vNaN",
\* and the writes to adjacency[current][undefined] and remainingIn[undefined]
\* touch no element of the arrays
CDGAssign(current, eligible, adj, rIn, ls, i, required) ==
  IF i >= required THEN [adjacency |-> adj, remainingIn |-> rIn, links |-> ls]
  ELSE IF i >= Len(eligible)
  THEN CDGAssign(current, eligible, adj, rIn,
                 Append(ls, [source |-> VLabel(current), target |-> VNaN]),
                 i + 1, required)
  ELSE LET target == At(eligible, i)
       IN CDGAssign(current, eligible,
                    SetAt(adj, current, SetAt(At(adj, current), target, TRUE)),
                    SetAt(rIn, target, At(rIn, target) - 1),
                    Append(ls, [source |-> VLabel(current), target |-> VLabel(target)]),
                    i + 1, required)

\* one pass of the body of while (true) in constructDirectedGraph
CDGIteration(st, ls) ==
  LET sortedIdx == SortByRemaining(st.nodeIndices, st.remainingOut)
      pos == FindPositive(sortedIdx, st.remainingOut)
      st1 == [st EXCEPT !.nodeIndices = sortedIdx]
  IN IF pos = 0
     THEN [ret |-> "break", st |-> st1, links |-> ls]
     ELSE LET current == sortedIdx[pos]
              required == At(st.remainingOut, current)
              st2 == [st1 EXCEPT !.remainingOut = SetAt(@, current, 0)]
              eligible == CDGEligibleTargets(current, sortedIdx, st.adjacency, st.remainingIn)
              r == CDGAssign(current, eligible, st.adjacency, st.remainingIn, ls, 0, required)
          IN [ret |-> "cont",
              st |-> [st2 EXCEPT !.adjacency = r.adjacency, !.remainingIn = r.remainingIn],
              links |-> r.links]

\* ------------------------------------------------------------------ state
VARIABLES
  pc,            \* the function that is running, or "idle"
  sequence,      \* the caller's degree sequence
  inDegrees,     \* the caller's in-degrees
  outDegrees,    \* the caller's out-degrees
  seq,           \* isUndirectedGraphic: let seq
  degrees,       \* constructUndirectedGraph: let degrees
  remainingIn,   \* isDirectedGraphic / constructDirectedGraph: remainingIn
  remainingOut,  \* remainingOut
  adjacency,     \* adjacency
  nodeIndices,   \* nodeIndices
  nodes,         \* the builder's nodes
  links,         \* the builder's links
  graphic,       \* the validator's return value when it was the last call: "true", "false"
  built,         \* the builder's return value when it was the last call: "null", "graph",
                 \* "TypeError" for the exception; "none" otherwise
  called,        \* the function called last, "none" before the first call
  graph,         \* the caller's graph: [nodes, links]
  directed,      \* the directed flag of the last call of generateLineGraph / checkConnectivity
  lineGraph,     \* what generateLineGraph last returned: [ret, nodes, links]
  connectivity,  \* what checkConnectivity last returned: [ret, strongly, weakly, unilaterally]
  cliques,       \* what findAllCliques / findMaximalCliques last returned: [ret, result]
  observed,      \* a caller's note of one call: its inputs as handed over and its output
  selected       \* isDirectedGraphic: the values current has taken since the call

vars == <<pc, sequence, inDegrees, outDegrees, seq, degrees, remainingIn,
          remainingOut, adjacency, nodeIndices, nodes, links, graphic, built,
          called, graph, directed, lineGraph, connectivity, cliques, observed,
          selected>>

inputs == <<sequence, inDegrees, outDegrees, graph>>

analysis == <<directed, lineGraph, connectivity, cliques>>

directedLocals == <<remainingIn, remainingOut, adjacency, nodeIndices>>

SeqsOver(maxLen, values) == UNION {[1 .. n -> values] : n \in 0 .. maxLen}

\* no graph handed over
NoGraph == [nodes |-> <<>>, links |-> <<>>]

\* generateLineGraph not called
NoLineGraph == [ret |-> "none", nodes |-> <<>>, links |-> <<>>]

\* checkConnectivity not called
NoConnectivity == [ret |-> "none", strongly |-> FALSE, weakly |-> FALSE, unilaterally |-> FALSE]

\* findAllCliques / findMaximalCliques not called
NoCliques == [ret |-> "none", result |-> <<>>]

\* what the last call returned
Outputs ==
  CASE called \in {"isUndirectedGraphic", "isDirectedGraphic"} -> <<graphic>>
    [] called \in {"constructUndirectedGraph", "constructDirectedGraph",
                    "componentConstructDirectedGraph"} -> <<built, nodes, links>>
    [] called = "generateLineGraph" -> <<lineGraph>>
    [] called = "checkConnectivity" -> <<connectivity>>
    [] called \in {"findAllCliques", "findMaximalCliques"} -> <<cliques>>
    [] OTHER -> <<>>

\* the last call: the function and, where it takes one, the directed flag
CallKey ==
  <<called, IF called \in {"generateLineGraph", "checkConnectivity"} THEN directed ELSE FALSE>>

\* a caller that keeps no note
Unobserved ==
  [on |-> FALSE, seen |-> FALSE, done |-> FALSE, since |-> 0,
   key |-> <<"none", FALSE>>, inputs |-> <<>>, out |-> <<>>]

\* a caller that will note one call
Observing == [Unobserved EXCEPT !.on = TRUE]

\* the caller's note: at the entry of a call it may pick that call, noting the
\* function and the inputs it hands over; at that call's return it notes the
\* output; afterwards it notes whether other functions were called (since = 1)
\* and whether the noted function was then called again (since = 2)
Observe ==
  observed' \in
    IF ~observed.on THEN {observed}
    ELSE IF pc = "idle" /\ ~observed.seen
         THEN {observed,
               [observed EXCEPT !.seen = TRUE, !.key = CallKey', !.inputs = inputs,
                                !.done = (pc' = "idle"),
                                !.out = IF pc' = "idle" THEN Outputs' ELSE <<>>]}
         ELSE IF observed.seen /\ ~observed.done /\ pc' = "idle"
              THEN {[observed EXCEPT !.done = TRUE, !.out = Outputs']}
              ELSE IF observed.done /\ pc = "idle"
                   THEN {[observed EXCEPT !.since =
                            IF CallKey' # observed.key THEN 1
                            ELSE IF @ >= 1 THEN 2 ELSE @]}
                   ELSE {observed}

\* the history of current in isDirectedGraphic: empty at every call, one value
\* longer after each pass of its loop that finds a node
Select ==
  selected' = IF pc = "idle" THEN <<>>
              ELSE IF pc = "isDirectedGraphic"
                   THEN selected \o DGCurrent(nodeIndices, remainingOut)
                   ELSE selected

InitLocals ==
  /\ pc = "idle"
  /\ seq = <<>>
  /\ degrees = <<>>
  /\ remainingIn = <<>>
  /\ remainingOut = <<>>
  /\ adjacency = <<>>
  /\ nodeIndices = <<>>
  /\ nodes = <<>>
  /\ links = <<>>
  /\ graphic = "none"
  /\ built = "none"
  /\ called = "none"
  /\ directed = FALSE
  /\ lineGraph = NoLineGraph
  /\ connectivity = NoConnectivity
  /\ cliques = NoCliques
  /\ selected = <<>>

\* the form hands over undirectedInput.split(',').map(Number) unchecked
InitUndirected ==
  /\ sequence \in SeqsOver(MaxN, (0 - 1) .. MaxDeg)
  /\ inDegrees = <<>>
  /\ outDegrees = <<>>
  /\ graph = NoGraph
  /\ InitLocals
  /\ observed = Unobserved

\* the entry with sequence.sort(...) in place of [...sequence].sort(...): the
\* caller's array is sorted too
CallIsUndirectedGraphicSortInPlace ==
  /\ pc = "idle"
  /\ pc' = "isUndirectedGraphic"
  /\ seq' = SortNumbersDesc(sequence)
  /\ sequence' = SortNumbersDesc(sequence)
  /\ graphic' = "none"
  /\ built' = "none"
  /\ nodes' = <<>>
  /\ links' = <<>>
  /\ degrees' = <<>>
  /\ called' = "isUndirectedGraphic"
  /\ UNCHANGED <<inDegrees, outDegrees, graph, analysis, directedLocals>>
  /\ Observe
  /\ Select

\* isUndirectedGraphic(sequence): entry
CallIsUndirectedGraphic ==
  /\ pc = "idle"
  /\ pc' = "isUndirectedGraphic"
  /\ seq' = SortNumbersDesc(sequence)
  /\ graphic' = "none"
  /\ built' = "none"
  /\ nodes' = <<>>
  /\ links' = <<>>
  /\ degrees' = <<>>
  /\ called' = "isUndirectedGraphic"
  /\ UNCHANGED <<inputs, analysis, directedLocals>>
  /\ Observe
  /\ Select

\* isUndirectedGraphic: one pass of while (true)
StepIsUndirectedGraphic ==
  /\ pc = "isUndirectedGraphic"
  /\ \E r \in {UGIteration(seq)} :
        /\ seq' = r.seq
        /\ IF r.ret = "cont"
           THEN UNCHANGED <<pc, graphic>>
           ELSE pc' = "idle" /\ graphic' = r.ret
  /\ UNCHANGED <<inputs, analysis, called, degrees, directedLocals, nodes, links, built>>
  /\ Observe
  /\ Select

\* the builder without its first line (the validator's verdict not asked)
CallConstructUndirectedGraphUnchecked ==
  /\ pc = "idle"
  /\ built' = "none"
  /\ nodes' = MakeNodes(Len(sequence))
  /\ links' = <<>>
  /\ degrees' = [i \in 1 .. Len(sequence) |-> [index |-> i - 1, degree |-> sequence[i]]]
  /\ pc' = "constructUndirectedGraph"
  /\ graphic' = "none"
  /\ seq' = <<>>
  /\ called' = "constructUndirectedGraph"
  /\ UNCHANGED <<inputs, analysis, directedLocals>>
  /\ Observe
  /\ Select

\* constructUndirectedGraph(sequence): the validator call and the set-up
CallConstructUndirectedGraph ==
  /\ pc = "idle"
  /\ IF ~IsUndirectedGraphic(sequence)
     THEN /\ built' = "null"
          /\ nodes' = <<>>
          /\ links' = <<>>
          /\ degrees' = <<>>
          /\ pc' = "idle"
     ELSE /\ built' = "none"
          /\ nodes' = MakeNodes(Len(sequence))
          /\ links' = <<>>
          /\ degrees' = [i \in 1 .. Len(sequence) |-> [index |-> i - 1, degree |-> sequence[i]]]
          /\ pc' = "constructUndirectedGraph"
  /\ graphic' = "none"
  /\ seq' = <<>>
  /\ called' = "constructUndirectedGraph"
  /\ UNCHANGED <<inputs, analysis, directedLocals>>
  /\ Observe
  /\ Select

\* constructUndirectedGraph: the loop test and one pass of the loop
StepConstructUndirectedGraph ==
  /\ pc = "constructUndirectedGraph"
  /\ IF \E i \in 1 .. Len(degrees) : degrees[i].degree > 0
     THEN \E r \in {CUGIteration(degrees, links)} :
             /\ degrees' = r.degrees
             /\ links' = r.links
             /\ IF r.ret = "cont"
                THEN UNCHANGED <<pc, built>>
                ELSE pc' = "idle" /\ built' = r.ret
     ELSE /\ pc' = "idle"
          /\ built' = "graph"
          /\ UNCHANGED <<degrees, links>>
  /\ UNCHANGED <<inputs, analysis, called, seq, directedLocals, nodes, graphic>>
  /\ Observe
  /\ Select

NextUndirected ==
  \/ CallIsUndirectedGraphic
  \/ StepIsUndirectedGraphic
  \/ CallConstructUndirectedGraph
  \/ StepConstructUndirectedGraph

SpecUndirected == InitUndirected /\ [][NextUndirected]_vars

\* ------------------------------------------------- the directed functions
Locals ==
  [remainingIn |-> remainingIn, remainingOut |-> remainingOut,
   adjacency |-> adjacency, nodeIndices |-> nodeIndices]

SetLocals(st) ==
  /\ remainingIn' = st.remainingIn
  /\ remainingOut' = st.remainingOut
  /\ adjacency' = st.adjacency
  /\ nodeIndices' = st.nodeIndices

NoLocals ==
  [remainingIn |-> <<>>, remainingOut |-> <<>>, adjacency |-> <<>>, nodeIndices |-> <<>>]

\* pairs that pass the guards of isDirectedGraphic
InitDirected ==
  /\ sequence = <<>>
  /\ \E n \in 0 .. MaxDirN :
       /\ inDegrees \in [1 .. n -> 0 .. MaxDirDeg]
       /\ outDegrees \in [1 .. n -> 0 .. MaxDirDeg]
  /\ Sum(inDegrees) = Sum(outDegrees)
  /\ Sum(inDegrees) <= MaxDirSum
  /\ graph = NoGraph
  /\ InitLocals
  /\ observed = Unobserved

\* the form hands over inDegreesInput.split(',').map(Number) and
\* outDegreesInput.split(',').map(Number) unchecked
InitDirectedAny ==
  /\ sequence = <<>>
  /\ inDegrees \in SeqsOver(MaxAnyN, (0 - 1) .. MaxAnyDeg)
  /\ outDegrees \in SeqsOver(MaxAnyN, (0 - 1) .. MaxAnyDeg)
  /\ graph = NoGraph
  /\ InitLocals
  /\ observed = Unobserved

\* isDirectedGraphic(inDegrees, outDegrees): the guards and the set-up
CallIsDirectedGraphic ==
  /\ pc = "idle"
  /\ IF ~DGGuard(inDegrees, outDegrees)
     THEN /\ graphic' = "false"
          /\ pc' = "idle"
          /\ SetLocals(NoLocals)
     ELSE /\ graphic' = "none"
          /\ pc' = "isDirectedGraphic"
          /\ SetLocals(DGLocals(inDegrees, outDegrees))
  /\ built' = "none"
  /\ nodes' = <<>>
  /\ links' = <<>>
  /\ called' = "isDirectedGraphic"
  /\ UNCHANGED <<inputs, analysis, seq, degrees>>
  /\ Observe
  /\ Select

\* isDirectedGraphic: one pass of while (true), or the break and the return
StepIsDirectedGraphic ==
  /\ pc = "isDirectedGraphic"
  /\ \E r \in {DGIteration(Locals)} :
        /\ SetLocals(r.st)
        /\ IF r.ret = "cont"
           THEN UNCHANGED <<pc, graphic>>
           ELSE pc' = "idle" /\ graphic' = r.ret
  /\ UNCHANGED <<inputs, analysis, called, seq, degrees, nodes, links, built>>
  /\ Observe
  /\ Select

\* constructDirectedGraph(inDegrees, outDegrees): the validator call and the set-up
CallConstructDirectedGraph ==
  /\ pc = "idle"
  /\ IF ~IsDirectedGraphic(inDegrees, outDegrees)
     THEN /\ built' = "null"
          /\ nodes' = <<>>
          /\ links' = <<>>
          /\ SetLocals(NoLocals)
          /\ pc' = "idle"
     ELSE /\ built' = "none"
          /\ nodes' = MakeNodes(Len(inDegrees))
          /\ links' = <<>>
          /\ SetLocals(DGLocals(inDegrees, outDegrees))
          /\ pc' = "constructDirectedGraph"
  /\ graphic' = "none"
  /\ called' = "constructDirectedGraph"
  /\ UNCHANGED <<inputs, analysis, seq, degrees>>
  /\ Observe
  /\ Select

\* constructDirectedGraph: one pass of while (true), or the break and the return
StepConstructDirectedGraph ==
  /\ pc = "constructDirectedGraph"
  /\ \E r \in {CDGIteration(Locals, links)} :
        /\ SetLocals(r.st)
        /\ links' = r.links
        /\ IF r.ret = "cont"
           THEN UNCHANGED <<pc, built>>
           ELSE pc' = "idle" /\ built' = "graph"
  /\ UNCHANGED <<inputs, analysis, called, seq, degrees, nodes, graphic>>
  /\ Observe
  /\ Select

NextDirected ==
  \/ CallIsDirectedGraphic
  \/ StepIsDirectedGraphic
  \/ CallConstructDirectedGraph
  \/ StepConstructDirectedGraph

SpecDirected == InitDirected /\ [][NextDirected]_vars

SpecDirectedAny == InitDirectedAny /\ [][NextDirected]_vars

\* ------------------- the component's copy of constructDirectedGraph
\* the component's isDirectedGraphic: the statements of the utility function
ComponentIsDirectedGraphic(inD, outD) == IsDirectedGraphic(inD, outD)

\* the filter predicate of eligibleTargets in the component's builder:
\* "Only check current->node direction"
ComponentCDGEligible(current, node, adj, rIn) ==
  /\ node # current
  /\ ~At(At(adj, current), node)
  /\ At(rIn, node) > 0

\* eligibleTargets of the component's builder
ComponentCDGEligibleTargets(current, indices, adj, rIn) ==
  SortByRemaining(SelectSeq(indices, LAMBDA node : ComponentCDGEligible(current, node, adj, rIn)), rIn)

\* one pass of the body of while (true) in the component's builder
ComponentCDGIteration(st, ls) ==
  LET sortedIdx == SortByRemaining(st.nodeIndices, st.remainingOut)
      pos == FindPositive(sortedIdx, st.remainingOut)
      st1 == [st EXCEPT !.nodeIndices = sortedIdx]
  IN IF pos = 0
     THEN [ret |-> "break", st |-> st1, links |-> ls]
     ELSE LET current == sortedIdx[pos]
              required == At(st.remainingOut, current)
              st2 == [st1 EXCEPT !.remainingOut = SetAt(@, current, 0)]
              eligible == ComponentCDGEligibleTargets(current, sortedIdx, st.adjacency,
                                                      st.remainingIn)
              r == CDGAssign(current, eligible, st.adjacency, st.remainingIn, ls, 0, required)
          IN [ret |-> "cont",
              st |-> [st2 EXCEPT !.adjacency = r.adjacency, !.remainingIn = r.remainingIn],
              links |-> r.links]

RECURSIVE CDGRun(_, _)
\* the loop of the utility builder run to its break: the links it returns
CDGRun(st, ls) ==
  LET r == CDGIteration(st, ls)
  IN IF r.ret = "cont" THEN CDGRun(r.st, r.links) ELSE r.links

\* the component's constructDirectedGraph(inDegrees, outDegrees): the
\* validator call and the set-up
CallComponentConstructDirectedGraph ==
  /\ pc = "idle"
  /\ IF ~ComponentIsDirectedGraphic(inDegrees, outDegrees)
     THEN /\ built' = "null"
          /\ nodes' = <<>>
          /\ links' = <<>>
          /\ SetLocals(NoLocals)
          /\ pc' = "idle"
     ELSE /\ built' = "none"
          /\ nodes' = MakeNodes(Len(inDegrees))
          /\ links' = <<>>
          /\ SetLocals(DGLocals(inDegrees, outDegrees))
          /\ pc' = "componentConstructDirectedGraph"
  /\ graphic' = "none"
  /\ called' = "componentConstructDirectedGraph"
  /\ UNCHANGED <<inputs, analysis, seq, degrees>>
  /\ Observe
  /\ Select

\* the component's builder: one pass of while (true), or the break and the return
StepComponentConstructDirectedGraph ==
  /\ pc = "componentConstructDirectedGraph"
  /\ \E r \in {ComponentCDGIteration(Locals, links)} :
        /\ SetLocals(r.st)
        /\ links' = r.links
        /\ IF r.ret = "cont"
           THEN UNCHANGED <<pc, built>>
           ELSE pc' = "idle" /\ built' = "graph"
  /\ UNCHANGED <<inputs, analysis, called, seq, degrees, nodes, graphic>>
  /\ Observe
  /\ Select

NextComponent ==
  \/ CallComponentConstructDirectedGraph
  \/ StepComponentConstructDirectedGraph

SpecComponent == InitDirected /\ [][NextComponent]_vars

\* both validators and both builders, on undirected and on directed inputs
InitBuilders == InitUndirected \/ InitDirectedAny

NextBuilders == NextUndirected \/ NextDirected

SpecBuilders == InitBuilders /\ [][NextBuilders]_vars

\* ---------------------------------------------------- generateLineGraph
\* `e${index + 1}[${link.source},${link.target}]`
ELabel(index, link) ==
  [prefix |-> "e", num |-> index + 1, source |-> link.source, target |-> link.target]

\* graph.links.map((link, index) => ({ id: ... }))
EdgeNodes(g) == [i \in 1 .. Len(g.links) |-> [id |-> ELabel(i - 1, g.links[i])]]

\* links sharing an endpoint only when it plays the same role in both
ShareEndpointSameRole(a, b) ==
  \/ a.source = b.source
  \/ a.target = b.target

\* the undirected test: the four comparisons of the two links' endpoints
ShareEndpoint(a, b) ==
  \/ a.source = b.source
  \/ a.source = b.target
  \/ a.target = b.source
  \/ a.target = b.target

\* the directed test: links[i].target === links[j].source
HeadToTail(a, b) == a.target = b.source

\* the directed flag ignored: endpoint sharing in both modes
AdjacentSymmetrized(isDirected, a, b) == ShareEndpoint(a, b)

\* the body of the inner loop: which test decides the push
Adjacent(isDirected, a, b) ==
  IF isDirected THEN HeadToTail(a, b) ELSE ShareEndpoint(a, b)

\* the inner loop started at j = i + 1: each unordered pair visited once
IndexPairsUpperTriangle(m) ==
  SelectSeq([k \in 1 .. m * m |-> <<(k - 1) \div m, (k - 1) % m>>],
            LAMBDA p : p[1] < p[2])

\* the pairs (i, j) in the order the two nested loops visit them
IndexPairs(m) == [k \in 1 .. m * m |-> <<(k - 1) \div m, (k - 1) % m>>]

\* the edgeLinks array after the two loops
EdgeLinks(g, isDirected) ==
  LET edgeNodes == EdgeNodes(g)
      pushed == SelectSeq(IndexPairs(Len(g.links)),
                   LAMBDA p : /\ p[1] # p[2]
                              /\ Adjacent(isDirected, At(g.links, p[1]), At(g.links, p[2])))
  IN  [k \in 1 .. Len(pushed) |->
         [source |-> At(edgeNodes, pushed[k][1]).id,
          target |-> At(edgeNodes, pushed[k][2]).id]]

GenerateLineGraph(g, isDirected) ==
  [ret |-> "graph", nodes |-> EdgeNodes(g), links |-> EdgeLinks(g, isDirected)]

\* the links a graph on nodes v1 .. vn can carry: source and target distinct
LinksOver(n) ==
  {[source |-> VLabel(a - 1), target |-> VLabel(b - 1)] :
     <<a, b>> \in {p \in (1 .. n) \X (1 .. n) : p[1] # p[2]}}

\* a graph as the builders return it or the caller composes it
InitLineGraph ==
  /\ InitLocals
  /\ observed = Unobserved
  /\ sequence = <<>>
  /\ inDegrees = <<>>
  /\ outDegrees = <<>>
  /\ \E n \in 0 .. MaxLineNodes :
       \E ls \in SeqsOver(MaxLineLinks, LinksOver(n)) :
          graph = [nodes |-> MakeNodes(n), links |-> ls]

\* generateLineGraph(graph, directed)
CallGenerateLineGraph ==
  /\ pc = "idle"
  /\ \E d \in BOOLEAN :
       /\ directed' = d
       /\ lineGraph' = GenerateLineGraph(graph, d)
  /\ called' = "generateLineGraph"
  /\ connectivity' = NoConnectivity
  /\ cliques' = NoCliques
  /\ UNCHANGED <<inputs, pc, seq, degrees, directedLocals, nodes, links, graphic, built>>
  /\ Observe
  /\ Select

NextLineGraph == CallGenerateLineGraph

SpecLineGraph == InitLineGraph /\ [][NextLineGraph]_vars

\* ----------------------------------------------------- checkConnectivity
\* parseInt(label.slice(1)) - 1: the digits after the first character, less
\* one; NaN stays NaN
IndexOf(label) ==
  [nan |-> label.nan, value |-> IF label.nan THEN 0 ELSE label.num - 1]

\* matrix[ix] is a row of the n x n matrix (otherwise it is undefined)
HasRow(ix, n) == ~ix.nan /\ ix.value \in 0 .. n - 1

\* the body of graph.links.forEach for one link; writing into an undefined
\* row ends the call with a TypeError
AddLink(m, link, isDirected) ==
  LET n == Len(m.adj)
      s == IndexOf(link.source)
      t == IndexOf(link.target)
  IN  IF ~HasRow(s, n) \/ ~HasRow(t, n)
      THEN [m EXCEPT !.ret = "TypeError"]
      ELSE LET adj1 == SetAt(m.adj, s.value, SetAt(At(m.adj, s.value), t.value, TRUE))
               rev1 == SetAt(m.reverseAdj, t.value, SetAt(At(m.reverseAdj, t.value), s.value, TRUE))
           IN  IF isDirected
               THEN [m EXCEPT !.adj = adj1, !.reverseAdj = rev1]
               ELSE [m EXCEPT
                       !.adj = SetAt(adj1, t.value, SetAt(At(adj1, t.value), s.value, TRUE)),
                       !.reverseAdj = SetAt(rev1, s.value, SetAt(At(rev1, s.value), t.value, TRUE))]

RECURSIVE AddLinks(_, _, _)
\* graph.links.forEach(...), stopping at the first TypeError
AddLinks(m, ls, isDirected) ==
  IF ls = <<>> \/ m.ret = "TypeError" THEN m
  ELSE AddLinks(AddLink(m, Head(ls), isDirected), Tail(ls), isDirected)

\* adj and reverseAdj after the set-up and the forEach
Matrices(g, isDirected) ==
  AddLinks([ret |-> "cont",
            adj |-> EmptyAdjacency(Len(g.nodes)),
            reverseAdj |-> EmptyAdjacency(Len(g.nodes))],
           g.links, isDirected)

RECURSIVE DfsNeighbors(_, _, _, _, _)
\* for (let neighbor = 0; neighbor < n; neighbor++) { ... }
DfsNeighbors(node, neighbor, adjMatrix, visited, stack) ==
  IF neighbor >= Len(adjMatrix) THEN [visited |-> visited, stack |-> stack]
  ELSE IF At(At(adjMatrix, node), neighbor) /\ ~At(visited, neighbor)
       THEN DfsNeighbors(node, neighbor + 1, adjMatrix,
                         SetAt(visited, neighbor, TRUE), Append(stack, neighbor))
       ELSE DfsNeighbors(node, neighbor + 1, adjMatrix, visited, stack)

RECURSIVE DfsLoop(_, _, _)
\* while (stack.length > 0) { const node = stack.pop()!; ... }
DfsLoop(adjMatrix, visited, stack) ==
  IF stack = <<>> THEN visited
  ELSE LET r == DfsNeighbors(stack[Len(stack)], 0, adjMatrix, visited,
                             SubSeq(stack, 1, Len(stack) - 1))
       IN  DfsLoop(adjMatrix, r.visited, r.stack)

\* dfs(start, adjacency): the visited array
Dfs(start, adjMatrix) ==
  DfsLoop(adjMatrix,
          SetAt([i \in 1 .. Len(adjMatrix) |-> FALSE], start, TRUE),
          <<start>>)

\* visited.every(v => v)
Every(visited) == \A i \in 1 .. Len(visited) : visited[i]

\* the reverse search left out
StronglyConnectedForwardOnly(adj, reverseAdj) == Every(Dfs(0, adj))

\* stronglyConnected
StronglyConnected(adj, reverseAdj) ==
  Every(Dfs(0, adj)) /\ Every(Dfs(0, reverseAdj))

\* the reverse matrix left out of the union
UndirectedAdjForwardOnly(adj, reverseAdj) == adj

\* adj.map((row, i) => row.map((val, j) => val || reverseAdj[i][j]))
UndirectedAdj(adj, reverseAdj) ==
  [i \in 1 .. Len(adj) |-> [j \in 1 .. Len(adj) |-> adj[i][j] \/ reverseAdj[i][j]]]

\* weaklyConnected
WeaklyConnected(adj, reverseAdj) == Every(Dfs(0, UndirectedAdj(adj, reverseAdj)))

\* || in place of &&: a pair fails as soon as one direction is missing
PairUnreachableOneWay(reachable, i, j) ==
  i # j /\ (~At(At(reachable, i), j) \/ ~At(At(reachable, j), i))

\* i !== j && !reachable[i][j] && !reachable[j][i]
PairUnreachable(reachable, i, j) ==
  i # j /\ ~At(At(reachable, i), j) /\ ~At(At(reachable, j), i)

\* unilaterallyConnected left at its initial true when the pair loops are skipped
UnilaterallyConnectedNoElse(adj, strong, weak) ==
  IF ~strong /\ weak
  THEN LET reachable == [i \in 1 .. Len(adj) |-> Dfs(i - 1, adj)]
       IN  ~\E i, j \in 0 .. Len(adj) - 1 : PairUnreachable(reachable, i, j)
  ELSE TRUE

\* unilaterallyConnected: the pair loops when the graph is weakly but not
\* strongly connected, else stronglyConnected
UnilaterallyConnected(adj, strong, weak) ==
  IF ~strong /\ weak
  THEN LET reachable == [i \in 1 .. Len(adj) |-> Dfs(i - 1, adj)]
       IN  ~\E i, j \in 0 .. Len(adj) - 1 : PairUnreachable(reachable, i, j)
  ELSE strong

\* the early return for n === 0 with unilaterally left false
CCEmptyResultNotUnilateral ==
  [ret |-> "value", strongly |-> TRUE, weakly |-> TRUE, unilaterally |-> FALSE]

\* if (n === 0) return { strongly: true, weakly: true, unilaterally: true }
CCEmptyResult ==
  [ret |-> "value", strongly |-> TRUE, weakly |-> TRUE, unilaterally |-> TRUE]

\* the three computed values returned whatever the flag
CCResultFlagIgnored(isDirected, strong, weak, unilateral) ==
  [ret |-> "value", strongly |-> strong, weakly |-> weak, unilaterally |-> unilateral]

\* the return statement
CCResult(isDirected, strong, weak, unilateral) ==
  [ret |-> "value",
   strongly |-> IF isDirected THEN strong ELSE weak,
   weakly |-> weak,
   unilaterally |-> IF isDirected THEN unilateral ELSE FALSE]

CheckConnectivity(g, isDirected) ==
  IF Len(g.nodes) = 0 THEN CCEmptyResult
  ELSE LET m == Matrices(g, isDirected)
       IN  IF m.ret = "TypeError"
           THEN [NoConnectivity EXCEPT !.ret = "TypeError"]
           ELSE LET strong == StronglyConnected(m.adj, m.reverseAdj)
                    weak == WeaklyConnected(m.adj, m.reverseAdj)
                IN  CCResult(isDirected, strong, weak,
                             UnilaterallyConnected(m.adj, strong, weak))

\* a graph whose links may name labels beyond its nodes
InitConnectivity ==
  /\ InitLocals
  /\ observed = Unobserved
  /\ sequence = <<>>
  /\ inDegrees = <<>>
  /\ outDegrees = <<>>
  /\ \E n \in 0 .. MaxConnNodes :
       \E ls \in SeqsOver(MaxConnLinks, LinksOver(MaxConnNodes)) :
          graph = [nodes |-> MakeNodes(n), links |-> ls]

\* checkConnectivity(graph, directed)
CallCheckConnectivity ==
  /\ pc = "idle"
  /\ \E d \in BOOLEAN :
       /\ directed' = d
       /\ connectivity' = CheckConnectivity(graph, d)
  /\ called' = "checkConnectivity"
  /\ lineGraph' = NoLineGraph
  /\ cliques' = NoCliques
  /\ UNCHANGED <<inputs, pc, seq, degrees, directedLocals, nodes, links, graphic, built>>
  /\ Observe
  /\ Select

NextConnectivity == CallCheckConnectivity

SpecConnectivity == InitConnectivity /\ [][NextConnectivity]_vars

\* ------------------------------------- the two validators run to their return
NextValidators ==
  \/ CallIsUndirectedGraphic
  \/ StepIsUndirectedGraphic
  \/ CallIsDirectedGraphic
  \/ StepIsDirectedGraphic

\* weak fairness of the pass of isUndirectedGraphic, WF_vars(StepIsUndirectedGraphic),
\* with its enabling condition written out: the pass can be taken exactly
\* while pc = "isUndirectedGraphic"
FairIsUndirectedGraphic ==
  []<>(pc # "isUndirectedGraphic") \/ []<><<StepIsUndirectedGraphic>>_vars

\* weak fairness of the pass of isDirectedGraphic, in the same form
FairIsDirectedGraphic ==
  []<>(pc # "isDirectedGraphic") \/ []<><<StepIsDirectedGraphic>>_vars

\* a call runs on without interruption (the functions are synchronous): a
\* pass of a loop that can be taken is taken
SpecValidatorsRun ==
  /\ InitBuilders
  /\ [][NextValidators]_vars
  /\ FairIsUndirectedGraphic
  /\ FairIsDirectedGraphic

\* ------------------------------- findAllCliques, findMaximalCliques
\* the body of graph.links.forEach in getAdjacencyMatrix for one link
AdjAddLink(m, link, isDirected) ==
  LET n == Len(m.adj)
      s == IndexOf(link.source)
      t == IndexOf(link.target)
  IN  IF ~HasRow(s, n) \/ (~isDirected /\ ~HasRow(t, n))
      THEN [m EXCEPT !.ret = "TypeError"]
      ELSE LET adj1 == SetAt(m.adj, s.value,
                             IF t.nan \/ t.value \notin 0 .. n - 1
                             THEN At(m.adj, s.value)
                             ELSE SetAt(At(m.adj, s.value), t.value, TRUE))
           IN  IF isDirected
               THEN [m EXCEPT !.adj = adj1]
               ELSE [m EXCEPT !.adj = SetAt(adj1, t.value,
                                            SetAt(At(adj1, t.value), s.value, TRUE))]

RECURSIVE AdjAddLinks(_, _, _)
AdjAddLinks(m, ls, isDirected) ==
  IF ls = <<>> \/ m.ret = "TypeError" THEN m
  ELSE AdjAddLinks(AdjAddLink(m, Head(ls), isDirected), Tail(ls), isDirected)

\* getAdjacencyMatrix(graph, directed)
GetAdjacencyMatrix(g, isDirected) ==
  AdjAddLinks([ret |-> "cont", adj |-> EmptyAdjacency(Len(g.nodes))], g.links, isDirected)

\* adj[parseInt(v.slice(1)) - 1][parseInt(w.slice(1)) - 1]
AdjOf(adj, v, w) == At(At(adj, IndexOf(v).value), IndexOf(w).value)

\* the candidates after P[i] kept whether or not they are adjacent to it
NewPUnfiltered(adj, P, i) == SubSeq(P, i + 2, Len(P))

\* P.slice(i + 1).filter(w => adj[v][w]) with v = P[i]
NewP(adj, P, i) ==
  SelectSeq(SubSeq(P, i + 2, Len(P)), LAMBDA w : AdjOf(adj, At(P, i), w))

\* S.filter(w => adj[v][w])
NewS(adj, S, v) == SelectSeq(S, LAMBDA w : AdjOf(adj, v, w))

RECURSIVE NextClique(_, _, _, _)
RECURSIVE NextCliqueLoop(_, _, _, _, _)
\* nextClique(C, P): the result array after the call
NextClique(adj, C, P, result) ==
  LET reported == IF Len(C) > 0 THEN Append(result, C) ELSE result
  IN  IF Len(P) = 0 THEN reported
      ELSE NextCliqueLoop(adj, C, P, 0, reported)

\* for (let i = 0; i < P.length; i++) { ... C.push(v); nextClique(C, newP); C.pop(); }
NextCliqueLoop(adj, C, P, i, result) ==
  IF i >= Len(P) THEN result
  ELSE NextCliqueLoop(adj, C, P, i + 1,
                      NextClique(adj, Append(C, At(P, i)), NewP(adj, P, i), result))

\* graph.nodes.map(node => node.id)
NodeIds(g) == [i \in 1 .. Len(g.nodes) |-> g.nodes[i].id]

FindAllCliques(g) ==
  LET m == GetAdjacencyMatrix(g, FALSE)
  IN  IF m.ret = "TypeError" THEN [ret |-> "TypeError", result |-> <<>>]
      ELSE [ret |-> "value", result |-> NextClique(m.adj, <<>>, NodeIds(g), <<>>)]

\* the clique reported as soon as no candidate is left
MCReportCandidatesOnly(P, S) == Len(P) = 0

\* P.length === 0 && S.length === 0
MCReport(P, S) == Len(P) = 0 /\ Len(S) = 0

RECURSIVE SimpleNextMaximalClique(_, _, _, _, _)
RECURSIVE SimpleNextMaximalCliqueLoop(_, _, _, _, _, _)
\* simpleNextMaximalClique(C, P, S): the result array after the call
SimpleNextMaximalClique(adj, C, P, S, result) ==
  IF MCReport(P, S)
  THEN IF Len(C) > 0 THEN Append(result, C) ELSE result
  ELSE SimpleNextMaximalCliqueLoop(adj, C, P, S, 0, result)

\* the loop over P: recurse on P[i], then S.push(P[i])
SimpleNextMaximalCliqueLoop(adj, C, P, S, i, result) ==
  IF i >= Len(P) THEN result
  ELSE SimpleNextMaximalCliqueLoop(adj, C, P, Append(S, At(P, i)), i + 1,
          SimpleNextMaximalClique(adj, Append(C, At(P, i)), NewP(adj, P, i),
                                  NewS(adj, S, At(P, i)), result))

FindMaximalCliques(g) ==
  LET m == GetAdjacencyMatrix(g, FALSE)
  IN  IF m.ret = "TypeError" THEN [ret |-> "TypeError", result |-> <<>>]
      ELSE [ret |-> "value",
            result |-> SimpleNextMaximalClique(m.adj, <<>>, NodeIds(g), <<>>, <<>>)]

\* the pairs a < b of node numbers, in order
PairsInOrder(n) ==
  SelectSeq([k \in 1 .. n * n |-> <<((k - 1) \div n) + 1, ((k - 1) % n) + 1>>],
            LAMBDA p : p[1] < p[2])

\* the links of the simple graph in which the k-th pair a < b is left out,
\* listed as a -> b, or listed as b -> a
LinksOfChoice(n, choice) ==
  LET pairs == PairsInOrder(n)
      kept == SelectSeq([k \in 1 .. Len(pairs) |-> k], LAMBDA k : choice[k] # "none")
  IN  [j \in 1 .. Len(kept) |->
         IF choice[kept[j]] = "forth"
         THEN [source |-> VLabel(pairs[kept[j]][1] - 1), target |-> VLabel(pairs[kept[j]][2] - 1)]
         ELSE [source |-> VLabel(pairs[kept[j]][2] - 1), target |-> VLabel(pairs[kept[j]][1] - 1)]]

\* an undirected graph as constructUndirectedGraph returns it: no link twice;
\* every set of pairs, with the links listed all as a -> b, all as b -> a, or
\* alternately
InitCliques ==
  /\ InitLocals
  /\ observed = Unobserved
  /\ sequence = <<>>
  /\ inDegrees = <<>>
  /\ outDegrees = <<>>
  /\ \E n \in 0 .. MaxCliqueNodes :
       \E present \in [1 .. ((n * (n - 1)) \div 2) -> BOOLEAN] :
          \E way \in {"forth", "back", "mixed"} :
             graph = [nodes |-> MakeNodes(n),
                      links |-> LinksOfChoice(n, [k \in DOMAIN present |->
                                   IF ~present[k] THEN "none"
                                   ELSE IF way = "mixed"
                                        THEN (IF k % 2 = 1 THEN "forth" ELSE "back")
                                        ELSE way])]

\* findAllCliques(graph)
CallFindAllCliques ==
  /\ pc = "idle"
  /\ cliques' = FindAllCliques(graph)
  /\ called' = "findAllCliques"
  /\ lineGraph' = NoLineGraph
  /\ connectivity' = NoConnectivity
  /\ UNCHANGED <<inputs, pc, seq, degrees, directedLocals, nodes, links, graphic, built, directed>>
  /\ Observe
  /\ Select

\* findMaximalCliques(graph)
CallFindMaximalCliques ==
  /\ pc = "idle"
  /\ cliques' = FindMaximalCliques(graph)
  /\ called' = "findMaximalCliques"
  /\ lineGraph' = NoLineGraph
  /\ connectivity' = NoConnectivity
  /\ UNCHANGED <<inputs, pc, seq, degrees, directedLocals, nodes, links, graphic, built, directed>>
  /\ Observe
  /\ Select

NextCliques ==
  \/ CallFindAllCliques
  \/ CallFindMaximalCliques

SpecCliques == InitCliques /\ [][NextCliques]_vars

\* ------------------------------ checkConnectivity on labels of any kind
\* `x${index + 1}`: a label that starts with another letter
XLabel(index) == [prefix |-> "x", num |-> index + 1, nan |-> FALSE]

\* links between labels v1 .. vk and x1 .. xk, source and target distinct
LinksOverAnyLabel(k) ==
  LET labels == {VLabel(a - 1) : a \in 1 .. k} \cup {XLabel(a - 1) : a \in 1 .. k}
  IN  {[source |-> p[1], target |-> p[2]] : p \in {q \in labels \X labels : q[1] # q[2]}}

\* a graph composed by a caller, its link labels unchecked
InitConnectivityAnyLabel ==
  /\ InitLocals
  /\ observed = Unobserved
  /\ sequence = <<>>
  /\ inDegrees = <<>>
  /\ outDegrees = <<>>
  /\ \E n \in 0 .. MaxLabelNodes :
       \E ls \in SeqsOver(MaxLabelLinks, LinksOverAnyLabel(MaxLabelNodes)) :
          graph = [nodes |-> MakeNodes(n), links |-> ls]

SpecConnectivityAnyLabel == InitConnectivityAnyLabel /\ [][NextConnectivity]_vars

\* ------------------------------------------- the six functions, repeated
\* one caller holding a sequence, a pair of sequences of equal length and sum,
\* or a graph, and noting a call
InitRepeated ==
  /\ InitLocals
  /\ observed = Observing
  /\ \/ /\ sequence \in SeqsOver(MaxRepeatN, 0 .. MaxRepeatDeg)
        /\ inDegrees = <<>>
        /\ outDegrees = <<>>
        /\ graph = NoGraph
     \/ /\ sequence = <<>>
        /\ \E n \in 0 .. MaxRepeatN :
             /\ inDegrees \in [1 .. n -> 0 .. MaxRepeatDeg]
             /\ outDegrees \in [1 .. n -> 0 .. MaxRepeatDeg]
             /\ Sum(inDegrees) = Sum(outDegrees)
        /\ graph = NoGraph
     \/ /\ sequence = <<>>
        /\ inDegrees = <<>>
        /\ outDegrees = <<>>
        /\ \E n \in 0 .. MaxRepeatN :
             \E ls \in SeqsOver(MaxRepeatN, LinksOver(n)) :
                graph = [nodes |-> MakeNodes(n), links |-> ls]

NextRepeated ==
  \/ NextUndirected
  \/ NextDirected
  \/ CallGenerateLineGraph
  \/ CallCheckConnectivity

SpecRepeated == InitRepeated /\ [][NextRepeated]_vars

\* ------------------------------------------------------------- references
NonNegative(s) == \A i \in 1 .. Len(s) : s[i] >= 0

HasNegative(s) == \E i \in 1 .. Len(s) : s[i] < 0

Min(a, b) == IF a <= b THEN a ELSE b

RECURSIVE SumOver(_, _)
\* the sum of f[i] over the finite set of indices S
SumOver(f, S) ==
  IF S = {} THEN 0
  ELSE LET i == CHOOSE j \in S : TRUE IN f[i] + SumOver(f, S \ {i})

\* the Erdos-Gallai condition on a sequence of non-negative integers
ErdosGallai(s) ==
  LET n == Len(s)
      d == SortNumbersDesc(s)
  IN /\ Sum(s) % 2 = 0
     /\ \A k \in 1 .. n :
          SumOver(d, 1 .. k)
            <= k * (k - 1) + SumOver([i \in 1 .. n |-> Min(d[i], k)], (k + 1) .. n)

\* the simple undirected graphs on the nodes 0..n-1: sets of two-element sets
SimpleGraphs(n) == SUBSET {e \in SUBSET (0 .. (n - 1)) : Cardinality(e) = 2}

\* the degree sequences of all simple undirected graphs on at most MaxN nodes
RealizedUndirected ==
  UNION {{[i \in 1 .. n |-> Cardinality({e \in g : (i - 1) \in e})] : g \in SimpleGraphs(n)}
         : n \in 0 .. MaxN}

\* the simple directed graphs on the nodes 0..n-1 (no self-loop, at most one
\* edge between two nodes): each pair a < b is left out, a -> b, or b -> a
OrientedGraphs(n) ==
  [{p \in (0 .. (n - 1)) \X (0 .. (n - 1)) : p[1] < p[2]} -> {"none", "forth", "back"}]

\* some such graph has these in- and out-degrees
DirectedRealizable(inD, outD) ==
  \E g \in OrientedGraphs(Len(inD)) :
     \A i \in 0 .. (Len(inD) - 1) :
        /\ At(inD, i) = Cardinality({p \in DOMAIN g : \/ (p[2] = i /\ g[p] = "forth")
                                                    \/ (p[1] = i /\ g[p] = "back")})
        /\ At(outD, i) = Cardinality({p \in DOMAIN g : \/ (p[1] = i /\ g[p] = "forth")
                                                     \/ (p[2] = i /\ g[p] = "back")})

\* the number of links that touch, enter, leave the node with this label
IncidentCount(ls, label) ==
  Cardinality({k \in 1 .. Len(ls) : ls[k].source = label \/ ls[k].target = label})

InCount(ls, label) == Cardinality({k \in 1 .. Len(ls) : ls[k].target = label})

OutCount(ls, label) == Cardinality({k \in 1 .. Len(ls) : ls[k].source = label})

NodesLabelled(n) ==
  /\ Len(nodes) = n
  /\ \A i \in 1 .. n : nodes[i].id = VLabel(i - 1)

TrueEntries(adj) ==
  Cardinality({p \in (1 .. Len(adj)) \X (1 .. Len(adj)) : adj[p[1]][p[2]]})

\* ----------------------------------------------------------------- claims
\* C1: on every sequence of non-negative integers isUndirectedGraphic returns
\* true exactly when some simple undirected graph on sequence.length nodes has
\* that degree sequence, which is exactly when the Erdos-Gallai condition holds.
C1_UndirectedValidatorDecidesRealizability ==
  (graphic # "none" /\ NonNegative(sequence)) =>
     /\ (graphic = "true") <=> (sequence \in RealizedUndirected)
     /\ (graphic = "true") <=> ErdosGallai(sequence)

C1_Witness ==
  /\ graphic = "true"
  /\ sequence = <<3, 3, 2, 2>>

\* C4 (as claimed): for every sequence isUndirectedGraphic accepts,
\* constructUndirectedGraph returns a graph whose nodes are v1..vN in index
\* order and in which the number of links at v(i+1) is sequence[i].
C4_BuiltDegreesEqualSequence ==
  built \notin {"none", "null"} =>
     /\ built = "graph"
     /\ NodesLabelled(Len(sequence))
     /\ \A i \in 1 .. Len(sequence) : IncidentCount(links, VLabel(i - 1)) = sequence[i]

\* C5: every graph constructUndirectedGraph returns is simple: no link joins a
\* node to itself and no two links join the same two nodes, in either orientation.
C5_UndirectedGraphIsSimple ==
  built = "graph" =>
     /\ \A k \in 1 .. Len(links) : links[k].source # links[k].target
     /\ \A k, l \in 1 .. Len(links) :
          k # l => {links[k].source, links[k].target} # {links[l].source, links[l].target}

C5_Witness ==
  /\ built = "graph"
  /\ sequence = <<3, 3, 2, 2>>
  /\ Len(links) = 5

\* C8: isUndirectedGraphic returns false on every sequence of non-negative
\* integers whose sum is odd.
C8_OddSumRejected ==
  (graphic # "none" /\ NonNegative(sequence) /\ Sum(sequence) % 2 = 1) => graphic = "false"

C8_Witness ==
  /\ graphic = "false"
  /\ sequence = <<2, 1, 1, 1>>

\* C9 (as claimed): on every sequence with a negative entry isUndirectedGraphic
\* returns false and constructUndirectedGraph returns null.
C9_NegativeDegreesRejected ==
  HasNegative(sequence) => (graphic # "true" /\ built \in {"none", "null"})

\* what the realized in- and out-degrees of the built graph must be
BuiltDegreesEqualInputs ==
  /\ built = "graph"
  /\ NodesLabelled(Len(inDegrees))
  /\ \A i \in 1 .. Len(inDegrees) :
       /\ InCount(links, VLabel(i - 1)) = inDegrees[i]
       /\ OutCount(links, VLabel(i - 1)) = outDegrees[i]

\* C2 (as claimed): on every pair of equal-length sequences of non-negative
\* integers isDirectedGraphic returns true exactly when some simple directed
\* graph (no self-loop, at most one edge between two nodes) has those in- and
\* out-degrees; the greedy choice rejects no realizable pair.
C2_DirectedValidatorDecidesRealizability ==
  graphic # "none" =>
     ((graphic = "true") <=> DirectedRealizable(inDegrees, outDegrees))

\* C3 (as claimed): isDirectedGraphic([2,1,1], [1,2,1]) returns true and
\* constructDirectedGraph on it returns a graph whose in- and out-degrees
\* equal the inputs.
C3_ExamplePairAccepted ==
  (inDegrees = <<2, 1, 1>> /\ outDegrees = <<1, 2, 1>>) =>
     /\ graphic # "false"
     /\ built # "none" => BuiltDegreesEqualInputs

\* C6: for every pair isDirectedGraphic accepts, the graph that
\* constructDirectedGraph returns has the nodes v1..vN, as many links into
\* v(i+1) as inDegrees[i] and out of it as outDegrees[i], and no link end
\* other than v1..vN (no "vNaN" from an undefined target).
C6_DirectedGraphRealizesDegrees ==
  built \notin {"none", "null"} =>
     /\ BuiltDegreesEqualInputs
     /\ \A k \in 1 .. Len(links) :
          \E i, j \in 1 .. Len(inDegrees) :
             links[k].source = nodes[i].id /\ links[k].target = nodes[j].id

C6_Witness ==
  /\ built = "graph"
  /\ Len(inDegrees) = 4
  /\ Len(links) = 5

C10_NegativeDirectedDegreesRejected ==
  (Len(inDegrees) = Len(outDegrees) /\ (HasNegative(inDegrees) \/ HasNegative(outDegrees)))
     => graphic # "true"

C10_Witness ==
  /\ graphic = "false"
  /\ Len(inDegrees) = Len(outDegrees)
  /\ Sum(inDegrees) = Sum(outDegrees)
  /\ HasNegative(inDegrees)
  /\ HasNegative(outDegrees)
  /\ TrueEntries(adjacency) >= 1

\* C11: when inDegrees and outDegrees differ in length or in sum,
\* isDirectedGraphic returns false at once: the loop is never entered and no
\* adjacency entry is ever set.
C11_MismatchRejectedBeforeAnyEdge ==
  (Len(inDegrees) # Len(outDegrees) \/ Sum(inDegrees) # Sum(outDegrees)) =>
     /\ graphic \in {"none", "false"}
     /\ pc = "idle"
     /\ adjacency = <<>>

C11_Witness ==
  /\ graphic = "false"
  /\ Len(inDegrees) = Len(outDegrees)
  /\ Sum(inDegrees) # Sum(outDegrees)
  /\ \E i, j \in 1 .. Len(inDegrees) : i # j /\ outDegrees[i] > 0 /\ inDegrees[j] > 0

\* C12: each builder returns null exactly when its validator returns false on
\* the same input, and then holds no node and no link; when the validator
\* returns true the builder returns a graph with all its nodes, and it never
\* ends in an exception with a graph half built.
C12_BuilderFailsExactlyWhenValidatorRejects ==
  built # "none" =>
     /\ called = "constructUndirectedGraph" =>
          IF IsUndirectedGraphic(sequence)
          THEN built = "graph" /\ Len(nodes) = Len(sequence)
          ELSE built = "null"
     /\ called = "constructDirectedGraph" =>
          IF IsDirectedGraphic(inDegrees, outDegrees)
          THEN built = "graph" /\ Len(nodes) = Len(inDegrees)
          ELSE built = "null"
     /\ built = "null" => (nodes = <<>> /\ links = <<>>)

C12_Witness ==
  /\ built = "null"
  /\ called = "constructDirectedGraph"
  /\ DGGuard(inDegrees, outDegrees)
  /\ \E i \in 1 .. Len(outDegrees) : outDegrees[i] > 0

\* the links of the graph handed over, and the result's nodes and links
GLinks == graph.links

LGNodes == lineGraph.nodes

LGLinks == lineGraph.links

\* the ids of the result's nodes
LGIds == {LGNodes[i].id : i \in 1 .. Len(LGNodes)}

\* how often the result lists the link from line node i to line node j
LGCount(i, j) ==
  Cardinality({k \in 1 .. Len(LGLinks) :
     LGLinks[k] = [source |-> LGNodes[i].id, target |-> LGNodes[j].id]})

\* the endpoints of a link, whichever way it points
Ends(l) == {l.source, l.target}

\* C13: in undirected mode the line graph has one node per original link, in
\* order, with pairwise distinct ids; it lists the link from node i to node j
\* exactly once when i # j and links i and j have an endpoint in common, and
\* not at all otherwise, so the relation is symmetric and has no self-link;
\* and it lists nothing else.
C13_UndirectedLineGraphLinksSharedEndpoints ==
  (lineGraph.ret = "graph" /\ ~directed) =>
     /\ Len(LGNodes) = Len(GLinks)
     /\ \A i \in 1 .. Len(GLinks) :
          /\ LGNodes[i].id.num = i
          /\ LGNodes[i].id.source = GLinks[i].source
          /\ LGNodes[i].id.target = GLinks[i].target
     /\ \A i, j \in 1 .. Len(LGNodes) : i # j => LGNodes[i].id # LGNodes[j].id
     /\ LET count == [i \in 1 .. Len(GLinks) |-> [j \in 1 .. Len(GLinks) |-> LGCount(i, j)]]
        IN  /\ \A i, j \in 1 .. Len(GLinks) :
                 count[i][j] = IF i # j /\ Ends(GLinks[i]) \cap Ends(GLinks[j]) # {}
                               THEN 1 ELSE 0
            /\ \A i, j \in 1 .. Len(GLinks) : i < j => count[i][j] = count[j][i]
     /\ \A k \in 1 .. Len(LGLinks) :
          LGLinks[k].source \in LGIds /\ LGLinks[k].target \in LGIds

C13_Witness ==
  /\ lineGraph.ret = "graph"
  /\ ~directed
  /\ Len(GLinks) = 3
  /\ \E i, j \in 1 .. 3 :
       /\ i # j
       /\ GLinks[i].source = GLinks[j].target
       /\ GLinks[i].target # GLinks[j].source
       /\ LGCount(i, j) = 1
       /\ LGCount(j, i) = 1
  /\ \E i, j \in 1 .. 3 : i # j /\ LGCount(i, j) = 0

\* C14: in directed mode the line graph lists the link from node i to node j
\* exactly once when i # j and the target of link i is the source of link j,
\* and not at all otherwise; the reverse link j -> i appears only when the
\* target of link j is the source of link i.
C14_DirectedLineGraphLinksHeadToTail ==
  (lineGraph.ret = "graph" /\ directed) =>
     /\ Len(LGNodes) = Len(GLinks)
     /\ LET count == [i \in 1 .. Len(GLinks) |-> [j \in 1 .. Len(GLinks) |-> LGCount(i, j)]]
        IN  /\ \A i, j \in 1 .. Len(GLinks) :
                 count[i][j] = IF i # j /\ GLinks[i].target = GLinks[j].source THEN 1 ELSE 0
            /\ \A i, j \in 1 .. Len(GLinks) :
                 (count[j][i] > 0) => GLinks[j].target = GLinks[i].source
     /\ \A k \in 1 .. Len(LGLinks) :
          LGLinks[k].source \in LGIds /\ LGLinks[k].target \in LGIds

C14_Witness ==
  /\ lineGraph.ret = "graph"
  /\ directed
  /\ \E i, j \in 1 .. Len(GLinks) :
       /\ i # j
       /\ GLinks[i].target = GLinks[j].source
       /\ GLinks[j].target # GLinks[i].source
       /\ LGCount(i, j) = 1
       /\ LGCount(j, i) = 0
  /\ \E i, j \in 1 .. Len(GLinks) :
       /\ i # j
       /\ GLinks[i].source = GLinks[j].source
       /\ LGCount(i, j) = 0
       /\ LGCount(j, i) = 0

\* how many links of the graph handed over touch node v
LinkDegree(v) == Cardinality({k \in 1 .. Len(GLinks) : v \in Ends(GLinks[k])})

\* the graph handed over is a path: 4 nodes and 3 links in a chain
IsPathOfThreeLinks ==
  /\ Len(graph.nodes) = 4
  /\ Len(GLinks) = 3
  /\ \A i, j \in 1 .. 3 : i # j => Ends(GLinks[i]) # Ends(GLinks[j])
  /\ Cardinality({v \in 1 .. 4 : LinkDegree(graph.nodes[v].id) = 1}) = 2
  /\ Cardinality({v \in 1 .. 4 : LinkDegree(graph.nodes[v].id) = 2}) = 2

\* C15 (as amended): for the undirected path with 4 nodes and 3 links the
\* line graph has 3 nodes and its links list has exactly 4 entries: each of
\* the 2 pairs of adjacent original links is listed once in each direction.
C15_PathLineGraphHasFourLinks ==
  (lineGraph.ret = "graph" /\ ~directed /\ IsPathOfThreeLinks) =>
     /\ Len(LGNodes) = 3
     /\ Len(LGLinks) = 4
     /\ Cardinality({p \in (1 .. 3) \X (1 .. 3) : p[1] < p[2] /\ LGCount(p[1], p[2]) = 1}) = 2
     /\ \A i, j \in 1 .. 3 : LGCount(i, j) = LGCount(j, i) /\ LGCount(i, j) <= 1

C15_Witness ==
  /\ lineGraph.ret = "graph"
  /\ ~directed
  /\ IsPathOfThreeLinks
  /\ Len(LGLinks) = 4

\* C15 as stated: the links list of that line graph has exactly 2 links
C15_PathLineGraphHasTwoLinks ==
  (lineGraph.ret = "graph" /\ ~directed /\ IsPathOfThreeLinks) =>
     /\ Len(LGNodes) = 3
     /\ Len(LGLinks) = 2

\* C16: on a graph with zero nodes checkConnectivity returns strongly, weakly
\* and unilaterally all true, whatever the directed flag and whatever links
\* the graph carries.
C16_EmptyGraphAllTrue ==
  (connectivity.ret # "none" /\ Len(graph.nodes) = 0) =>
     /\ connectivity.ret = "value"
     /\ connectivity.strongly
     /\ connectivity.weakly
     /\ connectivity.unilaterally

C16_Witness ==
  /\ connectivity.ret = "value"
  /\ connectivity.strongly /\ connectivity.weakly /\ connectivity.unilaterally
  /\ Len(graph.nodes) = 0
  /\ ~directed
  /\ graph.links # <<>>

\* C17 (as amended): whenever checkConnectivity returns a result for a graph
\* with at least one node passed with directed = false, unilaterally is false
\* whether or not the graph is connected; and for every graph passed with
\* directed = false, the empty one included, strongly equals weakly.
C17_UndirectedNeverUnilateral ==
  (connectivity.ret = "value" /\ ~directed) =>
     /\ connectivity.strongly = connectivity.weakly
     /\ Len(graph.nodes) > 0 => ~connectivity.unilaterally

C17_Witness ==
  /\ connectivity.ret = "value"
  /\ ~directed
  /\ Len(graph.nodes) = 3
  /\ connectivity.strongly
  /\ connectivity.weakly
  /\ ~connectivity.unilaterally

\* C17 as stated: with directed = false unilaterally is false on every graph
C17_UndirectedNeverUnilateralOnEveryGraph ==
  (connectivity.ret = "value" /\ ~directed) =>
     /\ connectivity.strongly = connectivity.weakly
     /\ ~connectivity.unilaterally

\* the directed links of the graph handed over, as pairs of node numbers
Arcs == {<<GLinks[k].source.num, GLinks[k].target.num>> : k \in 1 .. Len(GLinks)}

\* the same links with their direction ignored
ArcsEitherWay == Arcs \cup {<<a[2], a[1]>> : a \in Arcs}

RECURSIVE ReachableSet(_, _)
\* the least set that holds S and is closed under following the arcs of E
ReachableSet(S, E) ==
  LET next == S \cup {a[2] : a \in {x \in E : x[1] \in S}}
  IN  IF next = S THEN S ELSE ReachableSet(next, E)

\* node j can be reached from node i along directed links
Reaches(i, j) == j \in ReachableSet({i}, Arcs)

NodeNumbers == 1 .. Len(graph.nodes)

\* C18: on a directed graph with at least one node and link labels naming
\* its nodes, strongly is true exactly when every node reaches every other
\* node along directed links.
C18_StronglyIsMutualReachability ==
  (connectivity.ret = "value" /\ directed /\ Len(graph.nodes) > 0) =>
     (connectivity.strongly <=> \A i, j \in NodeNumbers : Reaches(i, j))

C18_Witness ==
  /\ connectivity.ret = "value"
  /\ directed
  /\ Len(graph.nodes) = 3
  /\ connectivity.strongly
  /\ \A i, j \in NodeNumbers : Reaches(i, j)

\* C19: on a directed graph with at least one node, unilaterally is true
\* exactly when of every two distinct nodes one reaches the other along
\* directed links, whether the graph is strongly connected, weakly but not
\* strongly connected, or not weakly connected.
C19_UnilaterallyIsOneWayReachability ==
  (connectivity.ret = "value" /\ directed /\ Len(graph.nodes) > 0) =>
     (connectivity.unilaterally <=>
        \A i, j \in NodeNumbers : i # j => (Reaches(i, j) \/ Reaches(j, i)))

C19_Witness ==
  /\ connectivity.ret = "value"
  /\ directed
  /\ Len(graph.nodes) = 3
  /\ ~connectivity.strongly
  /\ connectivity.weakly
  /\ connectivity.unilaterally

\* C20: on a graph with at least one node, with either flag, weakly is true
\* exactly when every node is reachable from the first node once the
\* direction of the links is ignored.
C20_WeaklyIsConnectedIgnoringDirection ==
  (connectivity.ret = "value" /\ Len(graph.nodes) > 0) =>
     (connectivity.weakly <=> ReachableSet({1}, ArcsEitherWay) = NodeNumbers)

C20_Witness ==
  /\ connectivity.ret = "value"
  /\ directed
  /\ Len(graph.nodes) = 3
  /\ connectivity.weakly
  /\ ~connectivity.unilaterally
  /\ ~Reaches(1, 2)
  /\ ~Reaches(1, 3)

\* the node numbers of the k-th clique returned
CliqueSet(k) == {cliques.result[k][i].num : i \in 1 .. Len(cliques.result[k])}

\* nodes a and b are joined by a link, whichever way it points
Joined(a, b) ==
  \E k \in 1 .. Len(GLinks) :
     \/ GLinks[k].source.num = a /\ GLinks[k].target.num = b
     \/ GLinks[k].source.num = b /\ GLinks[k].target.num = a

\* the sets of nodes returned
ReturnedCliques == {CliqueSet(k) : k \in 1 .. Len(cliques.result)}

\* the pairs of nodes joined by a link, whichever way it points
JoinedPairs ==
  {{GLinks[k].source.num, GLinks[k].target.num} : k \in 1 .. Len(GLinks)}

\* a non-empty set of nodes, pairwise joined in the set of pairs E
IsClique(S, E) == S # {} /\ \A a, b \in S : a # b => {a, b} \in E

\* the non-empty sets of pairwise joined nodes of the graph handed over
AllCliques ==
  LET E == JoinedPairs
  IN  {S \in SUBSET NodeNumbers : IsClique(S, E)}

\* the graph handed over is a triangle
IsTriangle == Len(graph.nodes) = 3 /\ Joined(1, 2) /\ Joined(1, 3) /\ Joined(2, 3)

\* C21: findAllCliques lists each returned clique's nodes once; the sets it
\* returns are exactly the non-empty sets of pairwise adjacent nodes,
\* singletons included, and none is returned twice; on a triangle these are
\* 7: 3 singletons, 3 pairs and the triple.
C21_AllCliquesEachOnce ==
  (cliques.ret = "value" /\ called = "findAllCliques") =>
     /\ \A k \in 1 .. Len(cliques.result) :
          Cardinality(CliqueSet(k)) = Len(cliques.result[k])
     /\ ReturnedCliques = AllCliques
     /\ Cardinality(ReturnedCliques) = Len(cliques.result)
     /\ IsTriangle =>
          /\ Len(cliques.result) = 7
          /\ \A c \in 1 .. 3 :
               Cardinality({k \in 1 .. 7 : Len(cliques.result[k]) = c}) = IF c = 3 THEN 1 ELSE 3

C21_Witness ==
  /\ cliques.ret = "value"
  /\ called = "findAllCliques"
  /\ IsTriangle
  /\ GLinks[1].source.num > GLinks[1].target.num
  /\ Len(cliques.result) = 7

\* the cliques that no node outside them extends
MaximalCliques ==
  LET all == AllCliques
  IN  {S \in all : \A v \in NodeNumbers \ S : (S \cup {v}) \notin all}

\* C22: findMaximalCliques lists each returned clique's nodes once; the sets
\* it returns are exactly the maximal cliques, isolated nodes included as
\* singletons, and none is returned twice; on a triangle it returns the
\* triangle alone.
C22_MaximalCliquesEachOnce ==
  (cliques.ret = "value" /\ called = "findMaximalCliques") =>
     /\ \A k \in 1 .. Len(cliques.result) :
          Cardinality(CliqueSet(k)) = Len(cliques.result[k])
     /\ ReturnedCliques = MaximalCliques
     /\ Cardinality(ReturnedCliques) = Len(cliques.result)
     /\ IsTriangle => (Len(cliques.result) = 1 /\ CliqueSet(1) = {1, 2, 3})

C22_Witness ==
  /\ cliques.ret = "value"
  /\ called = "findMaximalCliques"
  /\ Len(graph.nodes) = 4
  /\ Len(cliques.result) = 2
  /\ \E k \in 1 .. 2 : Len(cliques.result[k]) = 1
  /\ \E k \in 1 .. 2 : Len(cliques.result[k]) = 3

\* C23: the caller's sequences and graph stay as they were handed to the
\* noted call, whatever is called afterwards; and whenever the noted function
\* has returned again, after any calls of the other functions, its output
\* equals the output noted first.
C23_RepeatedCallReturnsFirstOutput ==
  observed.seen =>
     /\ inputs = observed.inputs
     /\ (observed.done /\ pc = "idle" /\ CallKey = observed.key) => Outputs = observed.out

C23_Witness ==
  /\ observed.done
  /\ observed.since = 2
  /\ pc = "idle"
  /\ CallKey = observed.key
  /\ called = "constructUndirectedGraph"
  /\ sequence = <<1, 1>>
  /\ built = "graph"
  /\ Len(links) = 1

\* the label is v<k> with k the number of one of the graph's nodes
MatchesScheme(label) ==
  label.prefix = "v" /\ ~label.nan /\ label.num \in 1 .. Len(graph.nodes)

\* C24: whenever some link's source or target label does not match v<k>
\* with 1 <= k <= number of nodes, checkConnectivity ends in an error and
\* returns no Connectivity value.
C24_MalformedLabelFailsExplicitly ==
  (/\ connectivity.ret # "none"
   /\ \E k \in 1 .. Len(GLinks) :
        ~MatchesScheme(GLinks[k].source) \/ ~MatchesScheme(GLinks[k].target))
     => connectivity.ret = "TypeError"

\* C27: with directed = true every returned result satisfies
\* strongly => unilaterally and unilaterally => weakly.
C27_StrongImpliesUnilateralImpliesWeak ==
  (connectivity.ret = "value" /\ directed) =>
     /\ connectivity.strongly => connectivity.unilaterally
     /\ connectivity.unilaterally => connectivity.weakly

\* a directed call on three nodes returning weakly without unilaterally:
\* v1 -> v2 <- v3
C27_Witness ==
  /\ connectivity.ret = "value" /\ directed
  /\ Len(graph.nodes) = 3
  /\ connectivity.weakly /\ ~connectivity.unilaterally /\ ~connectivity.strongly

\* the number of links of ls leaving (role = "source") or entering
\* (role = "target") the node labelled v<index + 1>
EndCount(ls, role, index) ==
  Cardinality({k \in 1 .. Len(ls) : ls[k][role] = VLabel(index)})

\* C25: for every pair its validator accepts, the component's
\* constructDirectedGraph finds at least `required` eligible targets in every
\* iteration (no link to an undefined target is pushed), returns a graph whose
\* in-degrees and out-degrees are the inputs, and returns the edge list of the
\* utility constructDirectedGraph.
C25_ComponentBuilderInLockstep ==
  (called = "componentConstructDirectedGraph" /\ built = "graph") =>
     /\ \A k \in 1 .. Len(links) : links[k].target # VNaN
     /\ \A i \in 1 .. Len(inDegrees) :
          /\ EndCount(links, "target", i - 1) = inDegrees[i]
          /\ EndCount(links, "source", i - 1) = outDegrees[i]
     /\ links = CDGRun(DGLocals(inDegrees, outDegrees), <<>>)

\* the sum of the entries that remain after seq.filter(d => d > 0)
RemainingSum(s) == Sum(SelectSeq(s, LAMBDA d : d > 0))

\* a pass of the loop of isUndirectedGraphic that goes round again leaves a
\* smaller sum of remaining entries
UGPassDecreasesSum ==
  (pc = "isUndirectedGraphic" /\ pc' = "isUndirectedGraphic")
     => RemainingSum(seq') < RemainingSum(seq)

\* a pass of the loop of isDirectedGraphic that finds a node sets that node's
\* positive remaining out-degree to zero and no other; a pass that finds none
\* returns
DGPassZeroesOne ==
  pc = "isDirectedGraphic" =>
     IF selected' = selected
     THEN pc' = "idle" /\ remainingOut' = remainingOut
     ELSE LET current == selected'[Len(selected')]
          IN /\ Len(selected') = Len(selected) + 1
             /\ At(remainingOut, current) > 0
             /\ remainingOut' = SetAt(remainingOut, current, 0)

\* no node was selected twice, so at most N passes have found a node
DGSelectedOnce ==
  called = "isDirectedGraphic" =>
     /\ \A i, j \in 1 .. Len(selected) : selected[i] = selected[j] => i = j
     /\ Len(selected) <= Len(inDegrees)

\* C26: isUndirectedGraphic terminates on every integer sequence, every pass
\* that does not return strictly decreasing the sum of the remaining entries
\* (those the filter keeps); every pass of the loop of isDirectedGraphic that
\* finds a node zeroes that one positive remaining out-degree, no node is
\* selected twice, at most N passes find a node, and the call returns.
C26_ValidatorLoopsTerminate ==
  /\ [][UGPassDecreasesSum]_vars
  /\ [][DGPassZeroesOne]_vars
  /\ []DGSelectedOnce
  /\ (pc = "isUndirectedGraphic") ~> (pc = "idle" /\ graphic \in {"true", "false"})
  /\ (pc = "isDirectedGraphic") ~> (pc = "idle" /\ graphic \in {"true", "false"})

\* isDirectedGraphic has returned true after selecting each of three nodes once
C26_Witness ==
  /\ pc = "idle" /\ called = "isDirectedGraphic" /\ graphic = "true"
  /\ Len(inDegrees) = 3
  /\ Len(selected) = 3

\* the renumberings of n nodes
Renumberings(n) ==
  {p \in [1 .. n -> 1 .. n] : \A i, j \in 1 .. n : p[i] = p[j] => i = j}

\* s with its entries moved as p renumbers the nodes
Permuted(s, p) == [i \in 1 .. Len(s) |-> s[p[i]]]

\* C28: on equal-length sequences without negative entries the verdict of
\* isDirectedGraphic is the verdict on the two sequences permuted by any one
\* permutation of the indices.
C28_VerdictInvariantUnderRenumbering ==
  (/\ called = "isDirectedGraphic" /\ pc = "idle"
   /\ Len(inDegrees) = Len(outDegrees)
   /\ ~HasNegative(inDegrees) /\ ~HasNegative(outDegrees))
     => \A p \in Renumberings(Len(inDegrees)) :
           IsDirectedGraphic(Permuted(inDegrees, p), Permuted(outDegrees, p))
              = (graphic = "true")

====
